---- MODULE Spec2Model ----
(***************************************************************************)
(* Model of frontend/publisher/publisher.go: topic provisioning and        *)
(* NewPublisher, the batching Dispatch Loop (Publisher.Run), the hand-off  *)
(* (Publisher.Publish) and the publish task closure run by the pool.       *)
(*                                                                         *)
(* Go slices are modelled as headers (buf, len, cap) over a heap of        *)
(* backing arrays, so that "a different buffer" is a statement about       *)
(* array identities.  The time.Timer is a count of live deadlines plus the *)
(* one-slot channel t.C.                                                   *)
(***************************************************************************)
EXTENDS Integers, Sequences, FiniteSets, TLC

\* ---- bounds of the model (configuration values and environment) --------
PubsubMaxBatch == 2
MaxPubSubGoroutinesAmount == 2
MaxEvents == 5
MaxFailures == 2

VARIABLES
  messages,        \* Run's local slice header: the open batch
  heap,            \* backing arrays: buffer id -> sequence of cells
  t,               \* the flush timer created in Run, shared with every task
  bqEvents,        \* the events received from c.bqEvents so far, in order
  tasks,           \* every closure handed to gp.Go, in hand-off order
  gp,              \* the pool's queue of task ids not yet started
  wg,              \* c.wg counter
  publishCounter,  \* prometheus counter pubsub_publish_total
  marshalErrors,   \* "Error Marshaling event" log lines
  ctor             \* NewPublisher: what it returned and the broker calls made

vars == <<messages, heap, t, bqEvents, tasks, gp, wg, publishCounter,
          marshalErrors, ctor>>

\* ---- Go slices ----------------------------------------------------------
NoBuf == 0
ZeroMsg == [Data |-> 0]
NilSlice == [buf |-> NoBuf, len |-> 0, cap |-> 0]

ZeroArray(n) == [k \in 1..n |-> ZeroMsg]

\* make([]gpubsub.Message, 0, c.config.PubsubMaxBatch)
MakeSlice(n) == [buf |-> 1, len |-> 0, cap |-> n]

\* the elements of slice s, read from its backing array now
Contents(h, s) == IF s.buf = NoBuf THEN << >> ELSE SubSeq(h[s.buf], 1, s.len)

\* capacity chosen by append when the array is full (doubling; the
\* allocator's size-class rounding only moves the points of reallocation)
GrowCap(c) == IF c = 0 THEN 1 ELSE 2 * c

\* append(s, m): in place when there is room, else a fresh array
AppendSliceNoCopy(h, s, m) ==
  IF s.len < s.cap
    THEN [s |-> [s EXCEPT !.len = s.len + 1],
          h |-> [h EXCEPT ![s.buf][s.len + 1] = m]]
    ELSE LET nb == Len(h) + 1
             nc == GrowCap(s.cap)
             arr == [k \in 1..nc |-> IF k = s.len + 1 THEN m ELSE ZeroMsg]
         IN [s |-> [buf |-> nb, len |-> s.len + 1, cap |-> nc],
             h |-> Append(h, arr)]

AppendSlice(h, s, m) ==
  IF s.len < s.cap
    THEN [s |-> [s EXCEPT !.len = s.len + 1],
          h |-> [h EXCEPT ![s.buf][s.len + 1] = m]]
    ELSE LET nb == Len(h) + 1
             nc == GrowCap(s.cap)
             arr == [k \in 1..nc |->
                       IF k <= s.len THEN h[s.buf][k]
                       ELSE IF k = s.len + 1 THEN m ELSE ZeroMsg]
         IN [s |-> [buf |-> nb, len |-> s.len + 1, cap |-> nc],
             h |-> Append(h, arr)]

\* ---- the flush timer ----------------------------------------------------
\* time.NewTimer(d): one live deadline, nothing in t.C
NewTimer == [pending |-> 1, c |-> 0]

\* t.Reset(d): replaces whatever deadline is live by one new deadline.  A
\* value already sent to t.C and not yet received stays there with the
\* buffered timer channel and is discarded with the synchronous one; which
\* of the two the program has depends on the toolchain it is built with.
ResetNoop(tm) == {tm}
ResetAdds(tm) == {[pending |-> tm.pending + 1, c |-> k] : k \in {tm.c, 0}}
Reset(tm) == {[pending |-> 1, c |-> k] : k \in {tm.c, 0}}

\* the runtime fires a live deadline: non-blocking send on t.C
FireTimer(tm) == [pending |-> tm.pending - 1, c |-> 1]

\* <-t.C
RecvRearms(tm) == [pending |-> 1, c |-> 0]
RecvKeeps(tm) == tm
Recv(tm) == [tm EXCEPT !.c = 0]

\* ---- serialization ------------------------------------------------------
\* an inbound event: its arrival number and whether ffjson rejects it
Event(n, bad) == [id |-> n, bad |-> bad]

\* ffjson.Marshal(event)
Marshal(ev) == [err |-> ev.bad, buf |-> ev.id]

\* gpubsub.Message{Data: buf}
Message(buf) == [Data |-> buf]

\* ---- Run's decisions ----------------------------------------------------
\* if err != nil { ...; continue }
DroppedNever(r) == FALSE
Dropped(r) == r.err

\* if len(messages) == c.config.PubsubMaxBatch
BatchFullLate(n) == n = PubsubMaxBatch + 1
BatchFullEarly(n) == n >= PubsubMaxBatch - 1
BatchFull(n) == n = PubsubMaxBatch

\* if len(messages) == 0 { ...; t.Reset(...); continue }
SkipPublishNever(n) == FALSE
SkipPublish(n) == n = 0

\* messages = nil, after each hand-off
Reslice(s) == [s EXCEPT !.len = 0]
NextOpen(s) == NilSlice

\* ---- Publish: wg.Add(1); gp.Go(closure) ---------------------------------
\* the closure captures the slice header, not a copy of the elements
NewTaskShort(h, s, trig) ==
  [msgs |-> [s EXCEPT !.len = s.len - 1], trigger |-> trig, pc |-> "queued",
   issued |-> << >>, total |-> 0, results |-> << >>,
   got |-> << >>, awaited |-> << >>, errnum |-> 0, resets |-> 0,
   log |-> [Success |-> -1, Failures |-> -1],
   handed |-> Contents(h, [s EXCEPT !.len = s.len - 1])]

NewTask(h, s, trig) ==
  [msgs |-> s, trigger |-> trig, pc |-> "queued",
   issued |-> << >>, total |-> 0, results |-> << >>,
   got |-> << >>, awaited |-> << >>, errnum |-> 0, resets |-> 0,
   log |-> [Success |-> -1, Failures |-> -1],
   handed |-> Contents(h, s)]

PublishBlocks(h, s, trig) ==
  /\ Cardinality({k \in 1..Len(tasks) :
                    tasks[k].pc \in {"publish", "get", "finish"}})
       < MaxPubSubGoroutinesAmount
  /\ wg' = wg + 1
  /\ tasks' = Append(tasks, NewTask(h, s, trig))
  /\ gp' = Append(gp, Len(tasks) + 1)

PublishNoAdd(h, s, trig) ==
  /\ wg' = wg
  /\ tasks' = Append(tasks, NewTask(h, s, trig))
  /\ gp' = Append(gp, Len(tasks) + 1)

PublishDrops(h, s, trig) ==
  /\ wg' = wg + 1
  /\ tasks' = Append(tasks, NewTask(h, s, trig))
  /\ gp' = gp

Publish(h, s, trig) ==
  /\ wg' = wg + 1
  /\ tasks' = Append(tasks, NewTask(h, s, trig))
  /\ gp' = Append(gp, Len(tasks) + 1)

\* ---- topic provisioning and construction ---------------------------------
NoErr == "nil"
NilTopic == "nil"
TopicHandle == "topic"

\* what the broker client can answer to the three calls
NewClientAnswers == {NoErr, "ErrNewClient"}
ExistsAnswers == {[ok |-> TRUE, err |-> NoErr], [ok |-> FALSE, err |-> NoErr],
                  [ok |-> FALSE, err |-> "ErrExists"]}
CreateTopicAnswers == {NoErr, "ErrCreateTopic"}

\* createTopicIfNotExists, given the answers of NewClient, t.Exists and
\* client.CreateTopic; calls lists the broker calls it made
createTopicIgnoresExistsErr(nc, ex, cr) ==
  IF nc # NoErr
    THEN [topic |-> NilTopic, err |-> nc, calls |-> << "NewClient" >>]
  ELSE IF ex.ok
    THEN [topic |-> TopicHandle, err |-> NoErr,
          calls |-> << "NewClient", "Exists" >>]
  ELSE [topic |-> IF cr # NoErr THEN NilTopic ELSE TopicHandle, err |-> cr,
        calls |-> << "NewClient", "Exists", "CreateTopic" >>]

createTopicIfNotExists(nc, ex, cr) ==
  IF nc # NoErr
    THEN [topic |-> NilTopic, err |-> nc, calls |-> << "NewClient" >>]
  ELSE IF ex.err # NoErr
    THEN [topic |-> TopicHandle, err |-> ex.err,
          calls |-> << "NewClient", "Exists" >>]
  ELSE IF ex.ok
    THEN [topic |-> TopicHandle, err |-> ex.err,
          calls |-> << "NewClient", "Exists" >>]
  ELSE [topic |-> IF cr # NoErr THEN NilTopic ELSE TopicHandle, err |-> cr,
        calls |-> << "NewClient", "Exists", "CreateTopic" >>]

\* NewPublisher, line 82: topic, err := createTopicIfNotExists(...)
NewPublisherProvision ==
  /\ ctor.pc = "new"
  /\ \E nc \in NewClientAnswers, ex \in ExistsAnswers, cr \in CreateTopicAnswers :
       LET r == createTopicIfNotExists(nc, ex, cr)
       IN ctor' = [pc |-> "provisioned", topic |-> r.topic, err |-> r.err,
                   calls |-> r.calls,
                   answers |-> [n \in 1..Len(r.calls) |->
                                  IF n = 1 THEN [ok |-> nc = NoErr, err |-> nc]
                                  ELSE IF n = 2 THEN ex
                                  ELSE [ok |-> cr = NoErr, err |-> cr]]]
  /\ UNCHANGED <<messages, heap, t, bqEvents, tasks, gp, wg, publishCounter,
                 marshalErrors>>

\* what NewPublisher returns next to &p
ReturnedNil(err) == NoErr
Returned(err) == err

\* NewPublisher, lines 84-98: p.topic = topic; return &p, err
NewPublisher ==
  /\ ctor.pc = "provisioned"
  /\ ctor' = [pc |-> "done", topic |-> ctor.topic, err |-> Returned(ctor.err),
              calls |-> << >>, answers |-> << >>]
  /\ UNCHANGED <<messages, heap, t, bqEvents, tasks, gp, wg, publishCounter,
                 marshalErrors>>

\* Run is started on a Publisher that NewPublisher returned without error
Constructed == ctor.pc = "done" /\ ctor.err = NoErr

\* ---- Init: before NewPublisher; Run's locals as at its first select -------
Init ==
  /\ ctor = [pc |-> "new", topic |-> NilTopic, err |-> NoErr, calls |-> << >>,
             answers |-> << >>]
  /\ messages = MakeSlice(PubsubMaxBatch)
  /\ heap = << ZeroArray(PubsubMaxBatch) >>
  /\ t = NewTimer
  /\ bqEvents = << >>
  /\ tasks = << >>
  /\ gp = << >>
  /\ wg = 0
  /\ publishCounter = 0
  /\ marshalErrors = 0

\* ---- the runtime fires the timer ----------------------------------------
TimerFire ==
  /\ Constructed
  /\ t.pending > 0
  /\ t' = FireTimer(t)
  /\ UNCHANGED <<messages, heap, bqEvents, tasks, gp, wg, publishCounter,
                 marshalErrors, ctor>>

\* ---- Run: case <-t.C ----------------------------------------------------
RunTimerSkip ==
  /\ Constructed
  /\ t.c = 1
  /\ SkipPublish(messages.len)
  /\ t' \in Reset(Recv(t))
  /\ UNCHANGED <<messages, heap, bqEvents, tasks, gp, wg, publishCounter,
                 marshalErrors, ctor>>

RunTimerPublish ==
  /\ Constructed
  /\ t.c = 1
  /\ ~SkipPublish(messages.len)
  /\ t' = Recv(t)
  /\ Publish(heap, messages, "time")
  /\ messages' = NextOpen(messages)
  /\ UNCHANGED <<heap, bqEvents, publishCounter, marshalErrors, ctor>>

\* ---- Run: case event := <-c.bqEvents ------------------------------------
RunEventMarshalError ==
  /\ Constructed
  /\ Len(bqEvents) < MaxEvents
  /\ \E bad \in BOOLEAN :
       LET event == Event(Len(bqEvents) + 1, bad)
       IN /\ Dropped(Marshal(event))
          /\ bqEvents' = Append(bqEvents, event)
          /\ marshalErrors' = marshalErrors + 1
  /\ UNCHANGED <<messages, heap, t, tasks, gp, wg, publishCounter, ctor>>

RunEventAppend ==
  /\ Constructed
  /\ Len(bqEvents) < MaxEvents
  /\ \E bad \in BOOLEAN :
       LET event == Event(Len(bqEvents) + 1, bad)
           r == Marshal(event)
           a == AppendSlice(heap, messages, Message(r.buf))
       IN /\ ~Dropped(r)
          /\ bqEvents' = Append(bqEvents, event)
          /\ heap' = a.h
          /\ IF BatchFull(a.s.len)
               THEN /\ Publish(a.h, a.s, "size")
                    /\ messages' = NextOpen(a.s)
               ELSE /\ messages' = a.s
                    /\ UNCHANGED <<tasks, gp, wg>>
  /\ UNCHANGED <<t, publishCounter, marshalErrors, ctor>>

\* ---- the goroutine pool -------------------------------------------------
Executing(k) == tasks[k].pc \in {"publish", "get", "finish"}
Running == Cardinality({k \in 1..Len(tasks) : Executing(k)})

\* a worker is free to take the next queued closure
NoLimit(n) == TRUE
WorkerFree(n) == n < MaxPubSubGoroutinesAmount

\* where the closure stands once its publish loop has issued n messages
AfterIssueAwait(task, n) ==
  IF n > 0 THEN "get"
  ELSE IF n < task.msgs.len THEN "publish" ELSE "finish"
AfterIssue(task, n) ==
  IF n < task.msgs.len THEN "publish"
  ELSE IF n > 0 THEN "get" ELSE "finish"

PoolStart ==
  /\ gp # << >>
  /\ WorkerFree(Running)
  /\ tasks' = [tasks EXCEPT ![Head(gp)].pc = AfterIssue(tasks[Head(gp)], 0)]
  /\ gp' = Tail(gp)
  /\ UNCHANGED <<messages, heap, t, bqEvents, wg, publishCounter,
                 marshalErrors, ctor>>

\* ---- the publish task ---------------------------------------------------
Failed(k) == Cardinality({n \in 1..Len(tasks[k].awaited) : tasks[k].awaited[n]})
RECURSIVE FailedUpTo(_)
FailedUpTo(k) == IF k = 0 THEN 0 ELSE Failed(k) + FailedUpTo(k - 1)

\* the *PublishResult that topic.Publish returns for message m
PublishResult(m) == [of |-> m]

\* r := c.topic.Publish(ctx, &messages[i]); total++; results = append(results, r)
TaskPublish(k) ==
  /\ tasks[k].pc = "publish"
  /\ LET task == tasks[k]
         n == Len(task.issued) + 1
         m == heap[task.msgs.buf][n]
     IN tasks' = [tasks EXCEPT ![k] =
                    [task EXCEPT !.issued = Append(task.issued, m),
                                 !.total = task.total + 1,
                                 !.results = Append(task.results, PublishResult(m)),
                                 !.pc = AfterIssue(task, n)]]
  /\ UNCHANGED <<messages, heap, t, bqEvents, gp, wg, publishCounter,
                 marshalErrors, ctor>>

\* one turn of "for _, r := range results": id, err := r.Get(ctx);
\* if err != nil { log; errnum++ }
OnOutcomeRetry(task, err) ==
  LET n == Len(task.got) + 1
      r == task.results[n]
  IN [task EXCEPT !.got = Append(task.got, r),
                  !.awaited = Append(task.awaited, err),
                  !.errnum = IF err THEN task.errnum + 1 ELSE task.errnum,
                  !.issued = IF err THEN Append(task.issued, r.of) ELSE task.issued,
                  !.pc = IF n < Len(task.results) THEN "get" ELSE "finish"]

OnOutcome(task, err) ==
  LET n == Len(task.got) + 1
      r == task.results[n]
  IN [task EXCEPT !.got = Append(task.got, r),
                  !.awaited = Append(task.awaited, err),
                  !.errnum = IF err THEN task.errnum + 1 ELSE task.errnum,
                  !.pc = IF n < Len(task.results) THEN "get" ELSE "finish"]

TaskGet(k) ==
  /\ tasks[k].pc = "get"
  /\ \E err \in BOOLEAN :
       /\ err => FailedUpTo(Len(tasks)) < MaxFailures
       /\ tasks' = [tasks EXCEPT ![k] = OnOutcome(tasks[k], err)]
  /\ UNCHANGED <<messages, heap, t, bqEvents, gp, wg, publishCounter,
                 marshalErrors, ctor>>

\* zap.Int64("Success", total-errnum)
SuccessIsTotal(total, errnum) == total
Success(total, errnum) == total - errnum

\* messages = nil; publishCounter.Add(total); logger.Info("Published", ...);
\* t.Reset(maxDelay); c.wg.Done()
TaskFinishNoReset(k) ==
  /\ tasks[k].pc = "finish"
  /\ LET task == tasks[k]
     IN tasks' = [tasks EXCEPT ![k] =
                    [task EXCEPT !.msgs = NilSlice,
                                 !.log = [Success |-> Success(task.total, task.errnum),
                                          Failures |-> task.errnum],
                                 !.pc = "done"]]
  /\ publishCounter' = publishCounter + tasks[k].total
  /\ wg' = wg - 1
  /\ UNCHANGED <<messages, heap, t, bqEvents, gp, marshalErrors, ctor>>

TaskFinish(k) ==
  /\ tasks[k].pc = "finish"
  /\ LET task == tasks[k]
     IN tasks' = [tasks EXCEPT ![k] =
                    [task EXCEPT !.msgs = NilSlice,
                                 !.log = [Success |-> Success(task.total, task.errnum),
                                          Failures |-> task.errnum],
                                 !.resets = task.resets + 1,
                                 !.pc = "done"]]
  /\ publishCounter' = publishCounter + tasks[k].total
  /\ t' \in Reset(t)
  /\ wg' = wg - 1
  /\ UNCHANGED <<messages, heap, bqEvents, gp, marshalErrors, ctor>>

Next ==
  \/ NewPublisherProvision
  \/ NewPublisher
  \/ TimerFire
  \/ RunTimerSkip
  \/ RunTimerPublish
  \/ RunEventMarshalError
  \/ RunEventAppend
  \/ PoolStart
  \/ \E k \in 1..Len(tasks) : TaskPublish(k)
  \/ \E k \in 1..Len(tasks) : TaskGet(k)
  \/ \E k \in 1..Len(tasks) : TaskFinish(k)

Spec == Init /\ [][Next]_vars

\* The pool runs the closures it accepted and the broker resolves outcome
\* handles: the pool does not stay idle with a free worker and a queued
\* closure, and the started closures do not all stand still.  (The Go
\* scheduler is fair to every goroutine; this weaker assumption suffices.)
TaskStep == \E k \in 1..Len(tasks) : TaskPublish(k) \/ TaskGet(k) \/ TaskFinish(k)
FairSpec == Spec /\ WF_vars(PoolStart) /\ WF_vars(TaskStep)

\* In addition the runtime fires a live deadline and Run's select takes the
\* timer case when t.C stays ready.
LiveSpec ==
  /\ FairSpec
  /\ WF_vars(TimerFire)
  /\ WF_vars(RunTimerSkip)
  /\ WF_vars(RunTimerPublish)

TypeOK ==
  /\ messages.len \in 0..(PubsubMaxBatch + 1)
  /\ t.c \in 0..1
  /\ Len(bqEvents) \in 0..MaxEvents
  /\ wg \in Nat

\* ---- vocabulary of the properties ----------------------------------------
Tasks == 1..Len(tasks)
TimeTasks == {k \in Tasks : tasks[k].trigger = "time"}
SizeTasks == {k \in Tasks : tasks[k].trigger = "size"}
Outstanding(k) == tasks[k].pc # "done"
Open == Contents(heap, messages)

\* the messages of the received events that serialize, in arrival order
Serializable(ev) == ~Marshal(ev).err
arrived ==
  LET good == SelectSeq(bqEvents, Serializable)
  IN [n \in 1..Len(good) |-> Message(Marshal(good[n]).buf)]

\* the batches handed to Publish so far, concatenated in hand-off order
RECURSIVE HandedUpTo(_)
HandedUpTo(k) == IF k = 0 THEN << >> ELSE HandedUpTo(k - 1) \o tasks[k].handed
LastTask == tasks'[Len(tasks')]

\* a step of Run that calls Publish
PublishStep == Len(tasks') = Len(tasks) + 1
\* a step of Run's timer branch: it receives from t.C and touches no task
TimerBranchStep ==
  /\ t.c = 1
  /\ t'.c = 0
  /\ \A k \in Tasks : tasks'[k] = tasks[k]

\* C1: while fewer than PubsubMaxBatch events have been appended and no
\* timer-triggered flush happened, no publish task has been submitted; and
\* every call of Publish is made either by the timer branch or with a batch
\* of exactly PubsubMaxBatch messages.
C1_NoEarlyPublishInv ==
  (TimeTasks = {} /\ Len(arrived) < PubsubMaxBatch) => tasks = << >>
C1_NoEarlyPublishStep ==
  PublishStep => (TimerBranchStep \/ LastTask.msgs.len = PubsubMaxBatch)
C1_NoEarlyPublish ==
  []C1_NoEarlyPublishInv /\ [][C1_NoEarlyPublishStep]_vars
C1_Witness ==
  /\ PubsubMaxBatch > 1
  /\ Len(arrived) = PubsubMaxBatch - 1
  /\ messages.len = PubsubMaxBatch - 1
  /\ tasks = << >>
  /\ t = NewTimer

\* C2: as long as no timer-triggered flush happened, the n-th publish task
\* holds exactly the n-th run of PubsubMaxBatch appended events in arrival
\* order, and there is one task per full run: PubsubMaxBatch events give
\* exactly one task holding all of them.
C2_FullBatchOnePublish ==
  TimeTasks = {} =>
    /\ Len(tasks) = Len(arrived) \div PubsubMaxBatch
    /\ \A k \in Tasks :
         tasks[k].handed = SubSeq(arrived, (k - 1) * PubsubMaxBatch + 1,
                                  k * PubsubMaxBatch)
C2_Witness ==
  /\ TimeTasks = {}
  /\ Len(arrived) = 2 * PubsubMaxBatch
  /\ Len(tasks) = 2
  /\ t = NewTimer
  /\ tasks[2].handed = SubSeq(arrived, PubsubMaxBatch + 1, 2 * PubsubMaxBatch)

\* C3: a step of the timer branch with k > 0 buffered messages submits
\* exactly one publish task, holding exactly those k messages in order, and
\* empties the open batch; with k = 0 it submits nothing; no timer-triggered
\* task ever holds an empty batch.
C3_TimerFlushStep ==
  TimerBranchStep =>
    IF messages.len = 0
      THEN tasks' = tasks /\ messages' = messages
      ELSE /\ PublishStep
           /\ LastTask.trigger = "time"
           /\ LastTask.msgs.len = messages.len
           /\ Contents(heap', LastTask.msgs) = Open
           /\ LastTask.handed = Open
C4_FlushStep == PublishStep => messages'.len = 0
C4_DistinctBuffers ==
  /\ \A k \in Tasks :
       tasks[k].msgs.buf # NoBuf => tasks[k].msgs.buf # messages.buf
  /\ \A k1, k2 \in Tasks :
       (k1 # k2 /\ tasks[k1].msgs.buf # NoBuf)
         => tasks[k1].msgs.buf # tasks[k2].msgs.buf
C4_NoEventTwice ==
  /\ \A k1, k2 \in Tasks :
       \A n1 \in 1..Len(tasks[k1].handed), n2 \in 1..Len(tasks[k2].handed) :
         tasks[k1].handed[n1] = tasks[k2].handed[n2] => (k1 = k2 /\ n1 = n2)
  /\ \A k1, k2 \in Tasks :
       \A n1 \in 1..Len(tasks[k1].issued), n2 \in 1..Len(tasks[k2].issued) :
         tasks[k1].issued[n1] = tasks[k2].issued[n2] => (k1 = k2 /\ n1 = n2)
C4_FreshBatch ==
  /\ [][C4_FlushStep]_vars
  /\ [](C4_DistinctBuffers /\ C4_NoEventTwice)
C4_Witness ==
  /\ Len(tasks) >= 2
  /\ tasks[1].trigger = "size" /\ tasks[2].trigger = "time"
  /\ tasks[1].pc = "get" /\ tasks[2].pc = "publish"
  /\ messages.len > 0

\* C5: a finished publish task has issued every message of its batch, has
\* awaited every outcome, and reports Failures = number of failed outcomes
\* and Success = total - Failures (K - 1 and 1 when exactly one fails).
C5_Reconciled ==
  \A k \in Tasks :
    tasks[k].pc = "done" =>
      /\ tasks[k].issued = tasks[k].handed
      /\ tasks[k].total = Len(tasks[k].handed)
      /\ Len(tasks[k].awaited) = Len(tasks[k].handed)
      /\ tasks[k].log.Failures = Failed(k)
      /\ tasks[k].log.Success = Len(tasks[k].handed) - Failed(k)
      /\ tasks[k].log.Success + tasks[k].log.Failures = tasks[k].total
C5_Witness ==
  \E k \in Tasks :
    /\ tasks[k].pc = "done"
    /\ Len(tasks[k].handed) = PubsubMaxBatch
    /\ tasks[k].awaited[1]
    /\ Failed(k) = 1
    /\ tasks[k].log = [Success |-> PubsubMaxBatch - 1, Failures |-> 1]
    /\ tasks[k].issued = tasks[k].handed

\* C6: at most MaxPubSubGoroutinesAmount closures execute at once; a closure
\* handed to the pool is either waiting in its queue (exactly once),
\* executing or finished; closures start in hand-off order; and every
\* queued closure is eventually started.
InQueue(k) == \E n \in 1..Len(gp) : gp[n] = k
C6_Bounded == Running <= MaxPubSubGoroutinesAmount
C6_NotDropped ==
  /\ \A k \in Tasks : (tasks[k].pc = "queued") <=> InQueue(k)
  /\ \A n1, n2 \in 1..Len(gp) : n1 < n2 => gp[n1] < gp[n2]
C6_AdmissionOrder ==
  \A k1, k2 \in Tasks :
    (k1 < k2 /\ tasks[k2].pc # "queued") => tasks[k1].pc # "queued"
C6_EventuallyStarted ==
  \A k \in 1..MaxEvents :
    (k \in Tasks /\ tasks[k].pc = "queued")
      ~> (k \in Tasks /\ tasks[k].pc # "queued")
C7_BatchSizeBounded ==
  /\ messages.len <= PubsubMaxBatch
  /\ Len(Open) <= PubsubMaxBatch
  /\ \A k \in Tasks :
       /\ Len(tasks[k].handed) <= PubsubMaxBatch
       /\ tasks[k].msgs.len <= PubsubMaxBatch
       /\ Len(tasks[k].issued) <= PubsubMaxBatch
C7_Witness ==
  /\ messages.len = PubsubMaxBatch - 1
  /\ \E k \in Tasks : Len(tasks[k].handed) = PubsubMaxBatch
  /\ Len(bqEvents) = MaxEvents

\* C8 as stated: the timer has exactly one live deadline in every state.
C8_ExactlyOneDeadline == t.pending = 1

\* C8 amended: the timer never has more than one live deadline, and it has
\* none only between a fire and the next rearm: then either the fire is
\* still unread in t.C or a publish task, which rearms at its end, is
\* outstanding.
C8_AtMostOneDeadline ==
  /\ t.pending <= 1
  /\ t.pending = 0 => (t.c = 1 \/ \E k \in Tasks : Outstanding(k))
C8_Witness ==
  /\ t.pending = 0
  /\ t.c = 0
  /\ \E k \in TimeTasks : tasks[k].pc = "get"
  /\ \E k \in Tasks : tasks[k].pc = "done"

\* C9 as stated: at most one timer-triggered publish task is outstanding.
TimeOutstanding == {k \in TimeTasks : Outstanding(k)}
SizeDone == {k \in SizeTasks : tasks[k].pc = "done"}
C9_OneTimerTaskInFlight == Cardinality(TimeOutstanding) <= 1

\* C9 amended: the number of outstanding timer-triggered tasks exceeds one
\* by at most the number of size-triggered tasks that have completed (each
\* of them rearms the shared timer); so at most one is outstanding while
\* no size-triggered task has completed.
C9_TimerTasksBounded ==
  Cardinality(TimeOutstanding) <= 1 + Cardinality(SizeDone)
C9_Witness ==
  /\ Cardinality(TimeOutstanding) = 2
  /\ Cardinality(SizeDone) = 1

\* C10: a step of Run that receives an event whose serialization fails
\* changes neither the open batch, nor the timer, nor the tasks; and the
\* batches handed off so far followed by the open batch are exactly the
\* messages of the events that serialize, in arrival order.
MarshalErrorStep ==
  /\ Len(bqEvents') = Len(bqEvents) + 1
  /\ Marshal(bqEvents'[Len(bqEvents')]).err
C10_DropStep ==
  MarshalErrorStep =>
    /\ UNCHANGED <<messages, heap, t, tasks, gp, wg>>
    /\ marshalErrors' = marshalErrors + 1
C10_OnlyFailedEventDropped ==
  /\ [][C10_DropStep]_vars
  /\ [](HandedUpTo(Len(tasks)) \o Open = arrived)
C10_Witness ==
  /\ Len(bqEvents) >= 3
  /\ ~bqEvents[1].bad /\ bqEvents[2].bad /\ ~bqEvents[3].bad
  /\ marshalErrors = 1
  /\ Len(tasks) = 1
  /\ tasks[1].handed = << Message(1), Message(3) >>
  /\ tasks[1].issued = << Message(1), Message(3) >>

\* C11: wg counts exactly the batches handed to Publish whose task has not
\* finished; it goes up only in a hand-off and down only, by one, in the
\* step that ends a task whose every message was issued and every outcome
\* awaited; so when wg is zero every handed batch has been fully attempted.
FullyAttempted(k) ==
  /\ tasks[k].issued = tasks[k].handed
  /\ Len(tasks[k].awaited) = Len(tasks[k].handed)
C11_CounterInv ==
  /\ wg = Cardinality({k \in Tasks : Outstanding(k)})
  /\ wg = 0 => \A k \in Tasks : tasks[k].pc = "done" /\ FullyAttempted(k)
C11_CounterStep ==
  /\ wg' > wg => (wg' = wg + 1 /\ PublishStep)
  /\ wg' < wg =>
       /\ wg' = wg - 1
       /\ \E k \in Tasks :
            /\ tasks[k].pc = "finish" /\ tasks'[k].pc = "done"
            /\ FullyAttempted(k)
C11_DrainCounter == []C11_CounterInv /\ [][C11_CounterStep]_vars
C11_Witness ==
  /\ wg = 0
  /\ Len(tasks) >= 2
  /\ \A k \in Tasks : tasks[k].pc = "done" /\ FullyAttempted(k)
  /\ \E k \in Tasks : Failed(k) > 0

\* C12: createTopicIfNotExists yields the error of the first provisioning
\* call that failed (client creation, existence check, topic creation) and
\* a nil error with the topic when none failed; it calls CreateTopic exactly
\* when the existence check succeeded and reported the topic absent; and
\* NewPublisher returns that error and a Publisher holding that topic.
CallFailed(n) == n <= Len(ctor.calls) /\ ctor.answers[n].err # NoErr
CreateCalled == \E n \in 1..Len(ctor.calls) : ctor.calls[n] = "CreateTopic"
C12_Provisioned ==
  ctor.pc = "provisioned" =>
    /\ \A n \in 1..Len(ctor.calls) :
         ctor.answers[n].err # NoErr =>
           /\ ctor.err = ctor.answers[n].err
           /\ n = Len(ctor.calls)
    /\ (\A n \in 1..Len(ctor.calls) : ctor.answers[n].err = NoErr)
         => (ctor.err = NoErr /\ ctor.topic = TopicHandle)
    /\ Len(ctor.calls) >= 2 \/ CallFailed(1)
    /\ CreateCalled <=>
         /\ Len(ctor.calls) = 3
         /\ ~CallFailed(1) /\ ~CallFailed(2)
         /\ ~ctor.answers[2].ok
C12_ReturnStep ==
  (ctor.pc = "provisioned" /\ ctor'.pc = "done") =>
    /\ ctor'.err = ctor.err
    /\ ctor'.topic = ctor.topic
    /\ (\E n \in 1..Len(ctor.calls) : ctor.answers[n].err # NoErr)
         <=> ctor'.err # NoErr
C12_ProvisioningSurfaced == []C12_Provisioned /\ [][C12_ReturnStep]_vars
C12_Witness ==
  /\ ctor.pc = "done"
  /\ ctor.err = "ErrCreateTopic"
  /\ ctor.topic = NilTopic

\* C13: a step of Run that hands a batch off leaves the timer as it is (the
\* timer branch only takes the fire out of t.C); a publish task calls Reset
\* exactly once, in its last step, after every outcome of its batch was
\* awaited, and a deadline is pending right after; Run itself rearms only
\* on a fire that finds the open batch empty.
C13_RunStep ==
  /\ PublishStep =>
       IF LastTask.trigger = "size" THEN t' = t
       ELSE t' = [t EXCEPT !.c = 0]
  /\ (TimerBranchStep /\ messages.len = 0) => t'.pending = 1
C13_TaskStep ==
  \A k \in Tasks :
    tasks'[k].resets # tasks[k].resets =>
      /\ tasks'[k].resets = 1
      /\ FullyAttempted(k)
      /\ tasks'[k].pc = "done"
      /\ t'.pending = 1
C13_OneResetPerTask ==
  \A k \in Tasks : tasks[k].resets = IF tasks[k].pc = "done" THEN 1 ELSE 0
C13_RearmAtCompletion ==
  /\ [][C13_RunStep /\ C13_TaskStep]_vars
  /\ []C13_OneResetPerTask
C13_Witness ==
  /\ \E k \in SizeTasks : tasks[k].resets = 1
  /\ \E k \in TimeTasks : tasks[k].resets = 1
  /\ \E k \in TimeTasks : tasks[k].pc = "get" /\ tasks[k].resets = 0
  /\ t.pending = 0

\* C14: a task issues the messages of its batch in batch order; it awaits
\* no outcome before it has issued all of them; and it awaits the outcome
\* handles in the order in which the publish calls returned them.
IsPrefix(a, b) == Len(a) <= Len(b) /\ a = SubSeq(b, 1, Len(a))
C14_IssueThenAwait ==
  \A k \in Tasks :
    /\ IsPrefix(tasks[k].issued, tasks[k].handed)
    /\ Len(tasks[k].results) = Len(tasks[k].issued)
    /\ \A n \in 1..Len(tasks[k].results) :
         tasks[k].results[n] = PublishResult(tasks[k].issued[n])
    /\ tasks[k].got # << >> => Len(tasks[k].issued) = Len(tasks[k].handed)
    /\ IsPrefix(tasks[k].got, tasks[k].results)
    /\ Len(tasks[k].awaited) = Len(tasks[k].got)
C14_Witness ==
  \E k \in Tasks :
    /\ Len(tasks[k].handed) = PubsubMaxBatch
    /\ Len(tasks[k].issued) = PubsubMaxBatch
    /\ Len(tasks[k].got) = 1
    /\ tasks[k].pc = "get"

\* C15: a task issues each message of its batch once and none twice, also
\* when outcomes fail; a step in which an outcome fails issues nothing and
\* changes nothing of Run's state (open batch, timer, events, pool queue).
C15_OnceEach ==
  \A k \in Tasks :
    /\ IsPrefix(tasks[k].issued, tasks[k].handed)
    /\ tasks[k].total = Len(tasks[k].issued)
    /\ tasks[k].pc \in {"get", "finish", "done"}
         => tasks[k].issued = tasks[k].handed
    /\ \A n1, n2 \in 1..Len(tasks[k].issued) :
         tasks[k].issued[n1] = tasks[k].issued[n2] => n1 = n2
FailureStep == \E k \in Tasks : tasks'[k].errnum > tasks[k].errnum
C15_FailureStep ==
  FailureStep =>
    /\ UNCHANGED <<messages, heap, t, bqEvents, gp, wg, marshalErrors>>
    /\ Len(tasks') = Len(tasks)
    /\ \A k \in Tasks :
         /\ tasks'[k].issued = tasks[k].issued
         /\ tasks'[k].total = tasks[k].total
         /\ tasks'[k].pc \in {"get", "finish"} \/ tasks'[k] = tasks[k]
C15_NoRetry == []C15_OnceEach /\ [][C15_FailureStep]_vars
C15_Witness ==
  \E k \in Tasks :
    /\ tasks[k].pc = "done"
    /\ Len(tasks[k].handed) = PubsubMaxBatch
    /\ tasks[k].awaited[1] /\ ~tasks[k].awaited[PubsubMaxBatch]
    /\ tasks[k].issued = tasks[k].handed
    /\ messages.len > 0

\* C16: as long as a task holds its batch, the elements of that batch in the
\* heap are the ones it held at hand-off, whatever Run and the other tasks
\* have done since; what the task has published is a prefix of them and,
\* once it is past its publish loop, all of them.
C16_HandedBatchFrozen ==
  \A k \in Tasks :
    /\ tasks[k].msgs.buf # NoBuf
         => Contents(heap, tasks[k].msgs) = tasks[k].handed
    /\ IsPrefix(tasks[k].issued, tasks[k].handed)
    /\ tasks[k].pc \in {"get", "finish", "done"}
         => tasks[k].issued = tasks[k].handed
C16_Witness ==
  /\ Len(tasks) >= 2
  /\ tasks[1].pc = "publish" /\ Len(tasks[1].issued) = 1
  /\ Len(tasks[1].handed) = PubsubMaxBatch
  /\ tasks[2].pc = "done"
  /\ messages.len > 0

\* C17: whatever the publish tasks are doing (waiting on an outcome, filling
\* every worker of the pool), Run can take the timer branch when t.C holds a
\* fire and can handle an inbound event, accepted or rejected by Marshal,
\* when one is there.
EventReady == Len(bqEvents) < MaxEvents
RearmStep == \E k \in Tasks : tasks'[k].resets > tasks[k].resets
C18_RearmStep ==
  RearmStep => (t'.pending = 1 /\ UNCHANGED <<messages, heap, bqEvents, gp>>)
C18_Inv ==
  /\ t.pending <= 1
  /\ \A k \in Tasks : tasks[k].handed # << >>
  /\ Len(HandedUpTo(Len(tasks))) + messages.len = Len(arrived)
  /\ \A n \in 1..Len(arrived) :
       IF n <= Len(HandedUpTo(Len(tasks)))
         THEN HandedUpTo(Len(tasks))[n] = arrived[n]
         ELSE Open[n - Len(HandedUpTo(Len(tasks)))] = arrived[n]
C18_LastRearmWins == [][C18_RearmStep]_vars /\ []C18_Inv
C18_Witness ==
  /\ \E k \in SizeTasks : tasks[k].pc = "done"
  /\ \E k \in TimeTasks : tasks[k].pc = "done"
  /\ t = [pending |-> 1, c |-> 1]
  /\ messages.len > 0

\* C19: the batches handed to Publish, concatenated in hand-off order and
\* followed by the open batch, are exactly the messages of the events that
\* serialized, in arrival order.
C19_Conservation == HandedUpTo(Len(tasks)) \o Open = arrived
C19_Witness ==
  /\ SizeTasks # {} /\ TimeTasks # {}
  /\ marshalErrors >= 1
  /\ messages.len > 0
  /\ Len(bqEvents) = MaxEvents

\* C20: under LiveSpec a non-empty open batch is eventually handed off (the
\* open batch becomes empty only by a hand-off), and a timer without a live
\* deadline is eventually rearmed.
C20_EventuallyFlushed ==
  /\ (messages.len > 0) ~> (messages.len = 0)
  /\ (t.pending = 0) ~> (t.pending = 1)
C20_Witness ==
  /\ Len(bqEvents) = MaxEvents
  /\ ~bqEvents[MaxEvents].bad
  /\ messages.len = 0
  /\ tasks[Len(tasks)].trigger = "time"
  /\ tasks[Len(tasks)].handed = << Message(MaxEvents) >>
  /\ \A k \in Tasks : tasks[k].pc = "done"

====
